---- MODULE Spec2Model ----
(***************************************************************************)
(* The resolution/fallback logic of the two fetch scripts:                 *)
(*   scripts/openligadb_fetch.py  season resolution (main, lines 199-222)  *)
(*   scripts/sportmonks_fetch.py  league resolution (find_league_id)       *)
(* Every network call is one step; the remote answers each call with any   *)
(* reply of a bounded set, independently of its earlier replies.           *)
(* Strings the code inspects are sequences of one-character strings.       *)
(***************************************************************************)
EXTENDS Integers, Sequences, FiniteSets, TLC

\* ------------------------------------------------------------------ bounds
MaxRecords == 3      \* records in the getavailableleagues payload
MaxMatches == 2      \* records in one getmatchdata payload
MaxCandidates == 2   \* leagues in one Sportmonks listing

\* ------------------------------------------------------------ Python values
None == -1           \* Optional[int] without a value

SeqsUpTo(S, n) == UNION {[1..k -> S] : k \in 0..n}

Upper == <<"A","B","C","D","E","F","G","H","I","J","K","L","M",
           "N","O","P","Q","R","S","T","U","V","W","X","Y","Z">>
Lower == <<"a","b","c","d","e","f","g","h","i","j","k","l","m",
           "n","o","p","q","r","s","t","u","v","w","x","y","z">>
Digits == <<"0","1","2","3","4","5","6","7","8","9">>

\* str.lower() on one character, and on a string
LowerOf == [c \in {Upper[i] : i \in DOMAIN Upper} |->
               Lower[CHOOSE i \in DOMAIN Upper : Upper[i] = c]]

LowerChar(c) == IF c \in DOMAIN LowerOf THEN LowerOf[c] ELSE c

lower(s) == [i \in 1..Len(s) |-> LowerChar(s[i])]

\* the value of a decimal digit, None for any other character
DigitOf == [c \in {Digits[i] : i \in DOMAIN Digits} |->
               (CHOOSE i \in DOMAIN Digits : Digits[i] = c) - 1]

DigitVal(c) == IF c \in DOMAIN DigitOf THEN DigitOf[c] ELSE None

RECURSIVE DigitsValue(_)
DigitsValue(d) ==
    IF d = <<>> THEN 0
    ELSE 10 * DigitsValue(SubSeq(d, 1, Len(d) - 1)) + DigitVal(d[Len(d)])

\* int(token): an optional sign, then one or more decimal digits;
\* anything else raises ValueError (ok = FALSE)
ParseInt(token) ==
    LET signed == Len(token) > 0 /\ token[1] \in {"+", "-"}
        body   == IF signed THEN Tail(token) ELSE token
        ok     == Len(body) > 0 /\ \A i \in 1..Len(body) : DigitVal(body[i]) # None
        mag    == IF ok THEN DigitsValue(body) ELSE 0
    IN [ok |-> ok, val |-> IF signed /\ token[1] = "-" THEN 0 - mag ELSE mag]

\* season_str.replace("/", " ")
ReplaceSlash(s) == [i \in 1..Len(s) |-> IF s[i] = "/" THEN " " ELSE s[i]]

\* str.split(): the maximal runs of non-whitespace characters
RECURSIVE SplitFrom(_, _, _)
SplitFrom(s, cur, acc) ==
    IF s = <<>> THEN (IF cur = <<>> THEN acc ELSE Append(acc, cur))
    ELSE IF Head(s) \in {" ", "\t", "\n"}
         THEN SplitFrom(Tail(s), <<>>, IF cur = <<>> THEN acc ELSE Append(acc, cur))
         ELSE SplitFrom(Tail(s), Append(cur, Head(s)), acc)

split(s) == SplitFrom(s, <<>>, <<>>)

\* the for loop of _extract_year over the tokens
RECURSIVE FirstYearToken(_)
FirstYearToken(tokens) ==
    IF tokens = <<>> THEN None
    ELSE LET p == ParseInt(Head(tokens))
         IN IF p.ok /\ 1900 < p.val /\ p.val < 2100
            THEN p.val
            ELSE FirstYearToken(Tail(tokens))

\* a mutant of _extract_year: the range test includes its lower end
ExtractYearInclusive(raw_season) ==
    IF raw_season.isNone THEN None
    ELSE LET RECURSIVE F(_)
             F(tokens) ==
                 IF tokens = <<>> THEN None
                 ELSE LET p == ParseInt(Head(tokens))
                      IN IF p.ok /\ 1900 <= p.val /\ p.val < 2100
                         THEN p.val
                         ELSE F(Tail(tokens))
         IN F(split(ReplaceSlash(raw_season.str)))

_extract_year(raw_season) ==
    IF raw_season.isNone THEN None
    ELSE FirstYearToken(split(ReplaceSlash(raw_season.str)))

\* sorted(set(seasons), reverse=True)
RECURSIVE SortedReverse(_)
SortedReverse(S) ==
    IF S = {} THEN <<>>
    ELSE LET m == CHOOSE x \in S : \A y \in S : y <= x
         IN <<m>> \o SortedReverse(S \ {m})

\* the loop of fetch_available_seasons: the years appended, in payload order
RECURSIVE AppendedSeasons(_, _)
AppendedSeasons(payload, short_normalized) ==
    IF payload = <<>> THEN <<>>
    ELSE LET item == Head(payload)
             rest == AppendedSeasons(Tail(payload), short_normalized)
             year == _extract_year(item.leagueSeason)
         IN IF lower(item.leagueShortcut) # short_normalized THEN rest
            ELSE IF year = None THEN rest
            ELSE <<year>> \o rest

Range(s) == {s[i] : i \in DOMAIN s}

\* fetch_available_seasons on a payload already received
SeasonsOf(payload, short) ==
    SortedReverse(Range(AppendedSeasons(payload, lower(short))))

\* --------------------------------------------------- OpenLigaDB input sets
\* league codes: the --league-short argument, and the leagueShortcut fields
LeagueShorts == { <<"B","L","1">> }
Shortcuts == { <<"B","l","1">>, <<"b","l","2">> }

\* leagueSeason fields: "2023/2024", "2024", "1900/2025", "2100 2023", "N/A",
\* "" and an absent field
Str(s) == [isNone |-> FALSE, str |-> s]
Labels ==
    { Str(<<"2","0","2","3","/","2","0","2","4">>),
      Str(<<"2","0","2","4">>),
      Str(<<"1","9","0","0","/","2","0","2","5">>),
      Str(<<"2","1","0","0"," ","2","0","2","3">>),
      Str(<<"N","/","A">>),
      Str(<<>>),
      [isNone |-> TRUE, str |-> <<>>] }

LeagueItems == [leagueShortcut : Shortcuts, leagueSeason : Labels]
LeaguePayloads == SeqsUpTo(LeagueItems, MaxRecords)

\* --season: absent, a year no label yields, a year some labels yield
RequestedSeasons == {None, 2022, 2024}
\* --matchday
Matchdays == {None, 10}

\* Team1 / Team2 of a match: absent, a team without a name, a named team
NoTeam == [dict |-> FALSE, TeamName |-> ""]
Unnamed == [dict |-> TRUE, TeamName |-> ""]
Named == [dict |-> TRUE, TeamName |-> "FC"]
MatchRecords == [Team1 : {NoTeam, Unnamed, Named}, Team2 : {Unnamed, Named}]
MatchLists == SeqsUpTo(MatchRecords, MaxMatches)

\* what one GET of the OpenLigaDB interface can come back with
Replies == {"json", "http_error", "non_json", "not_a_list"}

\* ------------------------------------------------------------------- state
VARIABLES
    script,             \* which of the two scripts runs
    pc,                 \* the position of the running script
    error,              \* the exception that ended it, "" when none
    requests,           \* the GETs issued so far, each with the reply received
    league_short, requested_season, matchday,   \* args of openligadb_fetch.main
    payload,            \* fetch_available_seasons: the payload being filtered
    seasons,            \* main: seasons / _find_latest_useful_season: seasons_list
    idx,                \* the for loop of _find_latest_useful_season (1-based)
    placeholder_source, placeholder_only, season, matches,   \* locals of main
    notice,             \* whether main wrote its correction notice to stderr
    name, country_id,   \* args of sportmonks_fetch.find_league_id
    candidate,          \* find_league_id: the candidate last selected
    league_id           \* the value find_league_id returned, None before

openligaVars == <<league_short, requested_season, matchday, payload, seasons, idx,
                  placeholder_source, placeholder_only, season, matches, notice>>
sportmonksVars == <<name, country_id, candidate, league_id>>
vars == <<script, pc, error, requests, openligaVars, sportmonksVars>>

Get(path, s, md, reply, real) ==
    [path |-> path, season |-> s, matchday |-> md, reply |-> reply, real |-> real]

\* ------------------------------------------------------- openligadb_fetch.py
\* _request_json: the SystemExit message a reply leads to, "" for none
_request_json(reply) ==
    CASE reply = "http_error" -> "HTTP request failed"
      [] reply = "non_json" -> "Non-JSON response"
      [] OTHER -> ""

\* fetch_matchday: _request_json, then the isinstance check
fetch_matchday(reply) ==
    IF _request_json(reply) # "" THEN _request_json(reply)
    ELSE IF reply = "not_a_list" THEN "Unexpected response format for match data"
    ELSE ""

\* _match_has_named_teams: "or {}" for an absent team, bool() of the names
_match_has_named_teams(match) ==
    LET team1 == IF match.Team1.dict THEN match.Team1 ELSE [TeamName |-> ""]
        team2 == IF match.Team2.dict THEN match.Team2 ELSE [TeamName |-> ""]
    IN team1.TeamName # "" /\ team2.TeamName # ""

\* a mutant of AnyNamed: every record has to name its teams
AllNamed(ms) == \A i \in DOMAIN ms : _match_has_named_teams(ms[i])

\* _find_latest_useful_season line 99: any(_match_has_named_teams(match) ...)
AnyNamed(ms) == \E i \in DOMAIN ms : _match_has_named_teams(ms[i])

\* what the request log notes of a match list: whether it holds a "real"
\* record as the data model defines it (both names present and non-empty)
IsReal(m) == m.Team1.dict /\ m.Team1.TeamName # "" /\ m.Team2.dict /\ m.Team2.TeamName # ""
HasReal(ms) == \E i \in DOMAIN ms : IsReal(ms[i])

NoCandidate ==
    [name |-> <<>>, id |-> None, country |-> "absent", nested_id |-> None, country_id |-> None]

InitOpenLigaDB ==
    /\ script = "openligadb_fetch"
    /\ pc = "main"
    /\ error = ""
    /\ requests = <<>>
    /\ name = <<>> /\ country_id = None /\ candidate = NoCandidate /\ league_id = None
    /\ league_short \in LeagueShorts
    /\ requested_season \in RequestedSeasons
    /\ matchday \in Matchdays
    /\ payload = <<>>
    /\ seasons = <<>>
    /\ idx = 0
    /\ placeholder_source = None
    /\ placeholder_only = FALSE
    /\ season = None
    /\ matches = <<>>
    /\ notice = FALSE

Exit(msg) == pc' = "done" /\ error' = msg

\* main line 202: fetch_available_seasons(args.league_short)
FetchAvailableSeasons ==
    /\ pc = "main"
    /\ \E reply \in {"json", "http_error", "non_json"} :
       \E p \in (IF reply = "json" THEN LeaguePayloads ELSE {<<>>}) :
          /\ requests' = Append(requests, Get("getavailableleagues", None, None, reply, FALSE))
          /\ IF _request_json(reply) # ""
             THEN /\ Exit(_request_json(reply))
                  /\ UNCHANGED <<payload, seasons>>
             ELSE /\ payload' = p
                  /\ seasons' = SeasonsOf(p, league_short)
                  /\ pc' = "check"
                  /\ error' = ""
    /\ UNCHANGED <<script, sportmonksVars, league_short, requested_season, matchday, idx, placeholder_source,
                   placeholder_only, season, matches, notice>>

\* a mutant of ExplicitSeason: an unlisted season is kept
ExplicitSeasonKept(requested, available) == requested

\* main lines 210-217: the season an explicit request resolves to
ExplicitSeason(requested, available) ==
    IF requested \notin Range(available) THEN available[1] ELSE requested

\* main lines 203-217: the empty check, then the choice of the mode
CheckSeasons ==
    /\ pc = "check"
    /\ IF seasons = <<>>
       THEN /\ Exit("Keine Saisons gefunden")
            /\ UNCHANGED <<payload, season, notice, idx>>
       ELSE /\ payload' = <<>>
            /\ error' = ""
            /\ IF requested_season # None
               THEN /\ season' = ExplicitSeason(requested_season, seasons)
                    /\ notice' = (requested_season \notin Range(seasons))
                    /\ pc' = "explicit"
                    /\ idx' = idx
               ELSE /\ pc' = "scan"
                    /\ idx' = 1
                    /\ UNCHANGED <<season, notice>>
    /\ UNCHANGED <<script, sportmonksVars, requests, league_short, requested_season, matchday, seasons,
                   placeholder_source, placeholder_only, matches>>

\* main line 218: the one fetch of an explicit season
ExplicitFetch ==
    /\ pc = "explicit"
    /\ \E reply \in Replies : \E ms \in (IF reply = "json" THEN MatchLists ELSE {<<>>}) :
          /\ requests' = Append(requests, Get("getmatchdata", season, matchday, reply, HasReal(ms)))
          /\ IF fetch_matchday(reply) # ""
             THEN Exit(fetch_matchday(reply)) /\ UNCHANGED matches
             ELSE matches' = ms /\ Exit("")
    /\ UNCHANGED <<script, sportmonksVars, league_short, requested_season, matchday, payload, seasons, idx,
                   placeholder_source, placeholder_only, season, notice>>

\* a mutant of NextPlaceholderSource: the last placeholder season is kept
LastPlaceholderSource(current, scanned) == scanned

\* _find_latest_useful_season lines 101-102
NextPlaceholderSource(current, scanned) ==
    IF current = None THEN scanned ELSE current

\* _find_latest_useful_season lines 97-102: one iteration of the for loop
ScanFetch ==
    /\ pc = "scan"
    /\ idx <= Len(seasons)
    /\ \E reply \in Replies : \E ms \in (IF reply = "json" THEN MatchLists ELSE {<<>>}) :
          /\ requests' = Append(requests,
                 Get("getmatchdata", seasons[idx], matchday, reply, HasReal(ms)))
          /\ IF fetch_matchday(reply) # ""
             THEN /\ Exit(fetch_matchday(reply))
                  /\ UNCHANGED <<matches, season, placeholder_source, placeholder_only, idx>>
             ELSE IF AnyNamed(ms)
             THEN /\ season' = seasons[idx]
                  /\ matches' = ms
                  /\ placeholder_only' = FALSE
                  /\ Exit("")
                  /\ UNCHANGED <<placeholder_source, idx>>
             ELSE /\ placeholder_source' = NextPlaceholderSource(placeholder_source, seasons[idx])
                  /\ matches' = ms
                  /\ idx' = idx + 1
                  /\ UNCHANGED <<pc, error, season, placeholder_only>>
    /\ UNCHANGED <<script, sportmonksVars, league_short, requested_season, matchday, payload, seasons, notice>>

\* a mutant of FallbackSeason: the oldest candidate is taken
FallbackOldest(seasons_list) == seasons_list[Len(seasons_list)]

\* _find_latest_useful_season line 105
FallbackSeason(seasons_list) == seasons_list[1]

\* _find_latest_useful_season lines 103-107: after the loop
FallbackFetch ==
    /\ pc = "scan"
    /\ idx > Len(seasons)
    /\ IF seasons = <<>>
       THEN /\ Exit("Keine Saisons gefunden")
            /\ UNCHANGED <<requests, matches, season, placeholder_source, placeholder_only>>
       ELSE \E reply \in Replies : \E ms \in (IF reply = "json" THEN MatchLists ELSE {<<>>}) :
          /\ requests' = Append(requests,
                 Get("getmatchdata", FallbackSeason(seasons), matchday, reply, HasReal(ms)))
          /\ IF fetch_matchday(reply) # ""
             THEN /\ Exit(fetch_matchday(reply))
                  /\ UNCHANGED <<matches, season, placeholder_source, placeholder_only>>
             ELSE /\ season' = FallbackSeason(seasons)
                  /\ matches' = ms
                  /\ placeholder_source' =
                        IF placeholder_source # None /\ placeholder_source # 0
                        THEN placeholder_source ELSE FallbackSeason(seasons)
                  /\ placeholder_only' = TRUE
                  /\ Exit("")
    /\ UNCHANGED <<script, sportmonksVars, league_short, requested_season, matchday, payload, seasons, idx, notice>>

\* -------------------------------------------------------- sportmonks_fetch.py
GERMANY_COUNTRY_ID == 11

\* --league-name, and the name fields of the leagues listed: "La Liga", "Serie A"
LeagueNames == { <<"L","I","G","a">> }
CandidateNames == { <<"L","a"," ","L","i","g","a">>, <<"S","e","r","i","e"," ","A">> }
\* the country filter find_league_id is called with
CountryFilters == {None, GERMANY_COUNTRY_ID, 462}
\* a league of a listing: its id (None: no id field), and its country, which is
\* absent, an included object (nested_id its id), or a scalar beside a
\* country_id field
LeagueCandidates ==
    [name : CandidateNames, id : {None, 82, 85},
     country : {"absent", "dict", "scalar"},
     nested_id : {GERMANY_COUNTRY_ID}, country_id : {GERMANY_COUNTRY_ID}]
CandidateLists == SeqsUpTo(LeagueCandidates, MaxCandidates)

\* what one GET of the Sportmonks API can come back with
ApiReplies == {"json", "http_error", "connection_error", "non_json", "not_a_dict"}

\* api_get: the exception a reply raises, "" for none
api_get(reply) ==
    CASE reply = "connection_error" -> "ConnectionError"
      [] reply = "http_error" -> "HTTPError"
      [] reply = "non_json" -> "JSONDecodeError"
      [] reply = "not_a_dict" -> "ValueError"
      [] OTHER -> ""

\* label.lower() contains name.lower()
Contains(hay, needle) ==
    \E i \in 0..(Len(hay) - Len(needle)) : SubSeq(hay, i + 1, i + Len(needle)) = needle

_matches_league(c, n, cid) ==
    IF ~Contains(lower(c.name), lower(n)) THEN FALSE
    ELSE IF cid = None THEN TRUE
    ELSE LET candidate_country_id ==
                 IF c.country = "scalar" THEN c.country_id
                 ELSE IF c.country = "dict" THEN c.nested_id
                 ELSE None
         IN candidate_country_id = cid

\* a mutant of _select_league_candidate: the last matching item is returned
SelectLastCandidate(data, n, cid) ==
    IF \E i \in DOMAIN data : _matches_league(data[i], n, cid)
    THEN data[CHOOSE i \in DOMAIN data :
                 /\ _matches_league(data[i], n, cid)
                 /\ \A j \in DOMAIN data : j > i => ~_matches_league(data[j], n, cid)]
    ELSE NoCandidate

\* _select_league_candidate over payload.get("data", []); NoCandidate is None
_select_league_candidate(data, n, cid) ==
    IF \E i \in DOMAIN data : _matches_league(data[i], n, cid)
    THEN data[CHOOSE i \in DOMAIN data :
                 /\ _matches_league(data[i], n, cid)
                 /\ \A j \in DOMAIN data : j < i => ~_matches_league(data[j], n, cid)]
    ELSE NoCandidate

\* "candidate and candidate.get('id')"
Usable(c) == c # NoCandidate /\ c.id # None /\ c.id # 0

\* a mutant of SearchRecovered: no exception of the search is swallowed
SearchRecoversNone(exc) == FALSE

\* find_league_id line 86: except requests.HTTPError
SearchRecovered(exc) == exc = "HTTPError"

\* a mutant of ListingRaises: an HTTP error of a listing reads as an empty one
ListingRaisesNoHTTPError(exc) == exc \notin {"", "HTTPError"}

\* find_league_id lines 97 and 109: api_get outside any try
ListingRaises(exc) == exc # ""

\* what the request log notes of a listing: the candidates satisfying the
\* matcher as the data model states it, and the first of them
CountryOf(c) ==
    CASE c.country = "dict" -> c.nested_id
      [] c.country = "scalar" -> c.country_id
      [] OTHER -> None
Satisfies(c, n, cid) ==
    /\ LET label == lower(c.name)
           query == lower(n)
       IN \E i \in 1..(Len(label) - Len(query) + 1) :
             \A k \in 1..Len(query) : label[i + k - 1] = query[k]
    /\ cid # None => CountryOf(c) = cid
MatchingAt(data, n, cid) == {i \in DOMAIN data : Satisfies(data[i], n, cid)}
FirstMatching(data, n, cid) ==
    LET M == MatchingAt(data, n, cid)
    IN IF M = {} THEN NoCandidate ELSE data[CHOOSE i \in M : \A j \in M : i <= j]

Call(endpoint, reply, data) ==
    [endpoint |-> endpoint, reply |-> reply,
     anyMatch |-> MatchingAt(data, name, country_id) # {},
     firstMatch |-> FirstMatching(data, name, country_id)]

InitSportmonks ==
    /\ script = "sportmonks_fetch"
    /\ pc = "search"
    /\ error = ""
    /\ requests = <<>>
    /\ name \in LeagueNames
    /\ country_id \in CountryFilters
    /\ candidate = NoCandidate
    /\ league_id = None
    /\ league_short = <<>> /\ requested_season = None /\ matchday = None
    /\ payload = <<>> /\ seasons = <<>> /\ idx = 0
    /\ placeholder_source = None /\ placeholder_only = FALSE
    /\ season = None /\ matches = <<>> /\ notice = FALSE

\* "if candidate and candidate.get('id'): return int(candidate['id'])", else on to `next`
Decide(c, next) ==
    /\ candidate' = c
    /\ IF Usable(c)
       THEN league_id' = c.id /\ pc' = "done" /\ error' = ""
       ELSE league_id' = league_id /\ pc' = next /\ error' = (IF next = "done" THEN "LookupError" ELSE "")

\* find_league_id lines 80-93: the name search
SearchStep ==
    /\ pc = "search"
    /\ \E reply \in ApiReplies : \E data \in (IF reply = "json" THEN CandidateLists ELSE {<<>>}) :
          /\ requests' = Append(requests, Call("leagues/search", reply, data))
          /\ IF api_get(reply) # "" /\ ~SearchRecovered(api_get(reply))
             THEN Exit(api_get(reply)) /\ UNCHANGED <<candidate, league_id>>
             ELSE Decide(_select_league_candidate(data, name, country_id),
                         IF country_id # None THEN "country" ELSE "full")
    /\ UNCHANGED <<script, name, country_id, openligaVars>>

\* find_league_id lines 96-106: the listing of the country's leagues
CountryStep ==
    /\ pc = "country"
    /\ \E reply \in ApiReplies : \E data \in (IF reply = "json" THEN CandidateLists ELSE {<<>>}) :
          /\ requests' = Append(requests, Call("leagues/countries", reply, data))
          /\ IF ListingRaises(api_get(reply))
             THEN Exit(api_get(reply)) /\ UNCHANGED <<candidate, league_id>>
             ELSE Decide(_select_league_candidate(data, name, country_id), "full")
    /\ UNCHANGED <<script, name, country_id, openligaVars>>

\* find_league_id lines 109-122: the full listing, then LookupError
FullStep ==
    /\ pc = "full"
    /\ \E reply \in ApiReplies : \E data \in (IF reply = "json" THEN CandidateLists ELSE {<<>>}) :
          /\ requests' = Append(requests, Call("leagues", reply, data))
          /\ IF ListingRaises(api_get(reply))
             THEN Exit(api_get(reply)) /\ UNCHANGED <<candidate, league_id>>
             ELSE Decide(_select_league_candidate(data, name, country_id), "done")
    /\ UNCHANGED <<script, name, country_id, openligaVars>>

Init == InitOpenLigaDB \/ InitSportmonks

Next ==
    \/ FetchAvailableSeasons
    \/ CheckSeasons
    \/ ExplicitFetch
    \/ ScanFetch
    \/ FallbackFetch
    \/ SearchStep
    \/ CountryStep
    \/ FullStep

Spec == Init /\ [][Next]_vars

\* ------------------------------------------------------------------ claims
OpenLigaDB == script = "openligadb_fetch"
Sportmonks == script = "sportmonks_fetch"
Done == pc = "done"
AutoMode == OpenLigaDB /\ requested_season = None
NoSeasonsFound == "Keine Saisons gefunden"

\* the getmatchdata requests of a run of openligadb_fetch, in order
MatchGets == SubSeq(requests, 2, Len(requests))
\* those the placeholder scan issued (the fetch after the scan is one more)
ScanGets == SubSeq(MatchGets, 1, IF Len(MatchGets) < Len(seasons) THEN Len(MatchGets) ELSE Len(seasons))
Placeholder(g) == g.reply = "json" /\ ~g.real

\* C1: in auto mode, as soon as the scan fetches a candidate whose match list
\* holds a real record, the resolution has returned that candidate with
\* degraded = False and a list holding a real record; every newer candidate
\* was fetched before it, in descending order, and was placeholder-only; and
\* nothing was fetched after it.
C1_NewestUsefulSeason ==
    AutoMode =>
        \A k \in DOMAIN ScanGets :
            (ScanGets[k].reply = "json" /\ ScanGets[k].real) =>
                /\ Done /\ error = ""
                /\ season = seasons[k]
                /\ placeholder_only = FALSE
                /\ HasReal(matches)
                /\ Len(MatchGets) = k
                /\ \A j \in 1..k : MatchGets[j].season = seasons[j]
                /\ \A j \in 1..(k - 1) : Placeholder(MatchGets[j])

\* C1 witness: of three candidates only the oldest has a real record
C1_Witness ==
    /\ AutoMode /\ Done /\ error = ""
    /\ Len(seasons) = 3 /\ season = seasons[3]
    /\ Len(MatchGets) = 3 /\ MatchGets[3].real
    /\ ~placeholder_only

FoundReal ==
    /\ AutoMode /\ Done /\ error = ""
    /\ Len(MatchGets) \in 1..Len(seasons)
    /\ MatchGets[Len(MatchGets)].real

\* C2 as stated: whenever the scan finds a candidate with a real record, the
\* outcome has fallback_source = None and degraded = False.
C2_Original ==
    FoundReal => placeholder_source = None /\ placeholder_only = FALSE

\* C2 amended: whenever the scan finds a candidate with a real record, the
\* outcome has degraded = False; fallback_source is None when the resolved
\* candidate is the newest one, and is the newest candidate (the first one
\* skipped as placeholder-only) otherwise.
C2_FallbackSourceIsNewestSkipped ==
    FoundReal =>
        /\ placeholder_only = FALSE
        /\ placeholder_source = (IF season = seasons[1] THEN None ELSE seasons[1])

\* C2 witness: two candidates were skipped before the resolved one
C2_Witness ==
    FoundReal /\ Len(MatchGets) = 3 /\ placeholder_source = seasons[1]

\* C3: in auto mode with a non-empty candidate set, once every candidate was
\* scanned and found placeholder-only and the closing fetch of the newest
\* candidate succeeded, the resolution has returned the newest candidate with
\* degraded = True and fallback_source = that newest candidate.
C3_AllPlaceholderFallsBackToNewest ==
    ( /\ AutoMode /\ seasons # <<>>
      /\ Len(MatchGets) = Len(seasons) + 1
      /\ \A j \in 1..Len(seasons) : Placeholder(MatchGets[j])
      /\ MatchGets[Len(MatchGets)].reply = "json" ) =>
        /\ Done /\ error = ""
        /\ season = seasons[1]
        /\ MatchGets[Len(MatchGets)].season = seasons[1]
        /\ placeholder_only = TRUE
        /\ placeholder_source = seasons[1]

\* C3 witness: two placeholder-only candidates, the newest is returned degraded
C3_Witness ==
    /\ AutoMode /\ Done /\ error = ""
    /\ Len(seasons) = 2 /\ Len(MatchGets) = 3
    /\ placeholder_only /\ season = seasons[1] /\ ~HasReal(matches)

\* C4: with an explicit season and a non-empty candidate set, the resolved
\* season is the requested one when listed, else the newest candidate, and the
\* correction notice is written exactly in the second case; exactly one match
\* fetch is issued, for the resolved season, and a returned outcome has
\* degraded = False and no fallback_source whatever the matches are.
C4_ExplicitSeason ==
    (OpenLigaDB /\ requested_season # None /\ seasons # <<>> /\ pc \in {"explicit", "done"}) =>
        /\ season = (IF requested_season \in Range(seasons) THEN requested_season ELSE seasons[1])
        /\ notice = (requested_season \notin Range(seasons))
        /\ Len(MatchGets) = (IF Done THEN 1 ELSE 0)
        /\ \A k \in DOMAIN MatchGets : MatchGets[k].season = season
        /\ placeholder_only = FALSE /\ placeholder_source = None
        /\ (Done /\ MatchGets[1].reply = "json") => error = ""

\* C4 witness: an unlisted season is replaced, and placeholder matches returned
C4_Witness ==
    /\ OpenLigaDB /\ Done /\ error = ""
    /\ requested_season # None /\ requested_season \notin Range(seasons)
    /\ Len(seasons) >= 2 /\ season = seasons[1] /\ notice
    /\ matches # <<>> /\ ~HasReal(matches)

\* the endpoints find_league_id may request, in order
Strategies ==
    IF country_id # None
    THEN <<"leagues/search", "leagues/countries", "leagues">>
    ELSE <<"leagues/search", "leagues">>
InStrategyOrder ==
    /\ Len(requests) <= Len(Strategies)
    /\ \A k \in DOMAIN requests : requests[k].endpoint = Strategies[k]

\* C5 as stated: the strategies are requested in order, and the first listing
\* that holds a candidate satisfying the matcher ends the resolution with the
\* id of its first matching candidate.
C5_Original ==
    Sportmonks =>
        /\ InStrategyOrder
        /\ \A k \in DOMAIN requests :
              requests[k].anyMatch =>
                  /\ k = Len(requests) /\ Done /\ error = ""
                  /\ league_id = requests[k].firstMatch.id

HasId(c) == c # NoCandidate /\ c.id # None

\* C5 amended: the strategies are requested in order; the first listing whose
\* first matching candidate carries an id ends the resolution with that id,
\* and no later endpoint is requested; a listing whose first matching
\* candidate has no id counts as one without a match.
C5_FirstMatchWithIdWins ==
    Sportmonks =>
        /\ InStrategyOrder
        /\ \A k \in DOMAIN requests :
              /\ HasId(requests[k].firstMatch) =>
                    /\ k = Len(requests) /\ Done /\ error = ""
                    /\ league_id = requests[k].firstMatch.id
              /\ (~HasId(requests[k].firstMatch) /\ k = Len(requests)) => league_id = None
        /\ (Done /\ error = "") => requests # <<>>

\* C5 witness: the country listing decides, its first matching candidate wins
C5_Witness ==
    /\ Sportmonks /\ Done /\ Len(requests) = 2
    /\ requests[2].anyMatch /\ league_id = 82 /\ candidate.id = 82

SearchFailed(replies) ==
    Sportmonks /\ requests # <<>> /\ requests[1].reply \in replies
WentOnAfterSearch ==
    /\ error \notin {"HTTPError", "JSONDecodeError"} \/ Len(requests) > 1
    /\ Len(requests) = 1 => pc = (IF country_id # None THEN "country" ELSE "full")
ExhaustedAll ==
    error = "LookupError" =>
        /\ Len(requests) = Len(Strategies) /\ InStrategyOrder
        /\ \A k \in DOMAIN requests : ~HasId(requests[k].firstMatch)

C7_NonSearchFailureIsFatal ==
    \A k \in DOMAIN requests :
        /\ (Sportmonks /\ requests[k].endpoint # "leagues/search" /\ requests[k].reply # "json") =>
              /\ k = Len(requests) /\ Done /\ league_id = None
              /\ error = api_get(requests[k].reply) /\ error \notin {"", "LookupError"}
        /\ (OpenLigaDB /\ requests[k].reply # "json") =>
              /\ k = Len(requests) /\ Done
              /\ error = fetch_matchday(requests[k].reply)
              /\ error \notin {"", NoSeasonsFound}

\* C7 witness: the scan's second fetch fails after a placeholder-only first
C7_Witness ==
    /\ AutoMode /\ Done /\ Len(MatchGets) = 2
    /\ Placeholder(MatchGets[1]) /\ MatchGets[2].reply = "http_error"
    /\ error = "HTTP request failed"

\* the year of a season label as section 4.1 words it: the leftmost maximal
\* run of characters other than "/" and whitespace that reads as an integer
\* strictly between 1900 and 2100
IsSep(ch) == ch \in {"/", " ", "\t", "\n"}
TokenFrom(s, i) ==
    SubSeq(s, i, CHOOSE j \in i..Len(s) :
                    /\ \A k \in i..j : ~IsSep(s[k])
                    /\ j = Len(s) \/ IsSep(s[j + 1]))
YearStarts(s) ==
    {i \in 1..Len(s) :
        /\ ~IsSep(s[i])
        /\ i = 1 \/ IsSep(s[i - 1])
        /\ LET p == ParseInt(TokenFrom(s, i)) IN p.ok /\ p.val > 1900 /\ p.val < 2100}
YearOfLabel(l) ==
    IF l.isNone \/ YearStarts(l.str) = {} THEN None
    ELSE LET Y == YearStarts(l.str)
         IN ParseInt(TokenFrom(l.str, CHOOSE i \in Y : \A u \in Y : i <= u)).val
YearByLabel == [l \in Labels |-> YearOfLabel(l)]
SameCode(a, b) == Len(a) = Len(b) /\ \A i \in 1..Len(a) : LowerChar(a[i]) = LowerChar(b[i])
CandidateYears ==
    {YearByLabel[payload[i].leagueSeason] :
        i \in {j \in DOMAIN payload : SameCode(payload[j].leagueShortcut, league_short)}} \ {None}

\* C8: the candidate list holds exactly the years of the records of the
\* requested league code (compared case-insensitively) whose label yields a
\* year, each once, in strictly descending order.
C8_CandidateSet ==
    (OpenLigaDB /\ pc = "check") =>
        /\ Range(seasons) = CandidateYears
        /\ \A i \in 1..(Len(seasons) - 1) : seasons[i] > seasons[i + 1]

\* C8 witness: three records of the league, two of the same year, and a
\* record of another league
C8_Witness ==
    /\ OpenLigaDB /\ pc = "check" /\ Len(payload) = 3 /\ Len(seasons) = 1
    /\ \A i \in 1..2 : SameCode(payload[i].leagueShortcut, league_short)
    /\ payload[1].leagueSeason # payload[2].leagueSeason
    /\ YearOfLabel(payload[1].leagueSeason) = YearOfLabel(payload[2].leagueSeason)
    /\ ~SameCode(payload[3].leagueShortcut, league_short)
    /\ YearOfLabel(payload[3].leagueSeason) \notin {None, seasons[1]}

\* C9: the run ends with NoSeasonsFound exactly when the season list was
\* fetched and the candidate set is empty, and then no match fetch was issued;
\* a match fetch is only ever issued with a non-empty candidate set; and with
\* a non-empty set and no failed fetch the run returns a member of the set.
C9_NoSeasonsFound ==
    OpenLigaDB =>
        /\ error = NoSeasonsFound =>
              /\ Done /\ seasons = <<>> /\ CandidateYears = {}
              /\ Len(requests) = 1 /\ season = None
        /\ (Done /\ seasons = <<>> /\ requests[1].reply = "json") => error = NoSeasonsFound
        /\ MatchGets # <<>> => seasons # <<>>
        /\ (Done /\ seasons # <<>> /\ \A k \in DOMAIN requests : requests[k].reply = "json") =>
              /\ error = ""
              /\ season \in Range(seasons)

\* C9 witness: records of the league exist, none of their labels yields a year
C9_Witness ==
    /\ OpenLigaDB /\ Done /\ error = NoSeasonsFound /\ requested_season # None
    /\ \E i \in DOMAIN payload : SameCode(payload[i].leagueShortcut, league_short)

\* C10 as stated: whenever auto mode returns degraded = True, the match list
\* handed back holds only placeholder records.
C10_DegradedDataIsPlaceholderOnly ==
    (AutoMode /\ Done /\ error = "" /\ placeholder_only) => ~HasReal(matches)

====
